---- MODULE Spec2Model ----
(***************************************************************************)
(* State-machine model of the NeuralDub front end: the LipSync page and    *)
(* its polling loop, the LiveTranslator page with the useAudioRecorder and *)
(* useLiveTranscription hooks, the Translator and TranslatePage wizards,   *)
(* and the fetch-based HTTP client functions.                              *)
(***************************************************************************)
EXTENDS Integers, Sequences, FiniteSets, TLC

VARIABLES
    lipSync,      \* LipSync page: the useState cells of the component
    runs,         \* LipSync page: the invocations of handleStartLipSync (closures, interval, timer)
    downloads,    \* LipSync page: job ids of the handleDownload calls awaiting their response
    lsEvent,      \* LipSync page: the HTTP response handled by the last step
    live,         \* LiveTranslator: useState cells, the continuous-mode interval, pending starts
    recorder,     \* useAudioRecorder: state, mediaRecorderRef
    media,        \* the MediaRecorder objects created by startRecording
    hook,         \* useLiveTranscription: state, processingRef
    calls,        \* processAudioChunk invocations past the guard
    submitted,    \* blobs that were passed to processAudioChunk
    ltEvent,      \* LiveTranslator: what the last step did
    tp,           \* TranslatePage: the useState cells of the component
    tpIntervals,  \* TranslatePage: currentProgress of every live setInterval of startTranslation
    tr,           \* Translator: the useState cells of the component
    trRuns,       \* Translator: the invocations of startTranslation
    http,         \* the last call of an HTTP client function: response and outcome
    vc,           \* VoiceClone: the useState cells of the component
    vcIntervals,  \* VoiceClone: number of live setInterval timers of handleStartTraining
    util          \* the last call of a validation or request-building function

lsVars == <<lipSync, runs, downloads, lsEvent>>
ltVars == <<live, recorder, media, hook, calls, submitted, ltEvent>>
tpVars == <<tp, tpIntervals>>
trVars == <<tr, trRuns>>
vcVars == <<vc, vcIntervals>>
vars == <<lsVars, ltVars, tpVars, trVars, http, vcVars, util>>

\* ------------------------------------------------------------------ bounds
MaxRuns == 2          \* invocations of handleStartLipSync that are followed
MaxInflight == 1      \* status queries of one job awaiting their response
MaxRecorders == 2     \* MediaRecorder objects created in one visit of LiveTranslator
MaxCalls == 2         \* processAudioChunk invocations that can be past the guard
MaxPending == 2       \* startRecording calls that are scheduled or await getUserMedia
MaxTrRuns == 2         \* invocations of Translator.startTranslation that are followed
MaxSamples == 4        \* audio samples selected on the VoiceClone page
MaxVcIntervals == 2    \* training intervals of the VoiceClone page alive at once

\* ------------------------------------------------------- program constants
POLL_INTERVAL_MS == 2000
TIMEOUT_MS == 300000
TimeoutTicks == TIMEOUT_MS \div POLL_INTERVAL_MS

Null == "null"
NoJob == 0
Files == {"fileA"}

\* ------------------------------------------------------------ HTTP layer
\* A response as the client functions see it: the status code (0 stands for
\* a rejected fetch) and the fields of the JSON body the callers read.
HttpStatuses == {0, 200, 201, 404, 500}
ok(status) == status >= 200 /\ status <= 299

Threw(message) == [threw |-> TRUE, message |-> message, value |-> Null]
Returned(value) == [threw |-> FALSE, message |-> Null, value |-> value]

\* JavaScript's v || default on a string or an absent value
Falsy(v) == v \in {Null, ""}
OrElse(v, default) == IF Falsy(v) THEN default ELSE v

\* generate without the response.ok check
generate_NoCheck(status, body) ==
    IF status = 0 THEN Threw("Failed to fetch") ELSE Returned(body)

\* lipSyncApi.generate: non-ok => throw new Error(error.error || ...)
generate(status, body) ==
    IF status = 0 THEN Threw("Failed to fetch")
    ELSE IF ~ok(status) THEN Threw(OrElse(body.error, "Failed to generate lip sync"))
    ELSE Returned(body)

\* lipSyncApi.getStatus
getStatus(status, body) ==
    IF status = 0 THEN Threw("Failed to fetch")
    ELSE IF ~ok(status) THEN Threw(OrElse(body.error, "Failed to get status"))
    ELSE Returned(body)

\* lipSyncApi.download
download(status, body) ==
    IF status = 0 THEN Threw("Failed to fetch")
    ELSE IF ~ok(status) THEN Threw("Failed to download video")
    ELSE Returned(body)

\* Bodies a backend may send: the fields the LipSync page reads.
JobStatuses == {"completed", "failed", "processing", "queued"}
Body(status, error, progress, stage) ==
    [status |-> status, error |-> error, progress |-> progress, stage |-> stage]
Bodies == {Body("completed", Null, 0, Null),
           Body("failed", Null, 0, Null), Body("failed", "backend error", 0, Null),
           Body("processing", Null, 0, Null), Body("processing", Null, 50, "Inference"),
           Body("queued", Null, 0, Null)}
ErrorBodies == {b \in Bodies : b.status = "failed"}

\* ------------------------------------------------------------ LipSync page
IdleRun == [pc |-> "unused", closureIsProcessing |-> FALSE, jobId |-> NoJob,
            interval |-> "none", timeout |-> "none", elapsed |-> 0, inflight |-> 0,
            reported |-> FALSE]

LsEvent(endpoint, isOk, job, status) ==
    [endpoint |-> endpoint, ok |-> isOk, job |-> job, status |-> status]
NoEvent == LsEvent("none", TRUE, NoJob, "none")

LipSyncInit ==
    /\ lipSync = [videoFile |-> Null, audioFile |-> Null, isProcessing |-> FALSE,
                  progress |-> 0, jobId |-> NoJob, outputVideoUrl |-> Null,
                  error |-> Null, statusMessage |-> ""]
    /\ runs = [r \in 1..MaxRuns |-> IdleRun]
    /\ downloads = {}
    /\ lsEvent = NoEvent

\* lipSyncApi.getDownloadUrl
getDownloadUrl(jobId) == <<"download", jobId>>

handleVideoUpload(file) ==
    /\ lipSync' = IF file # Null THEN [lipSync EXCEPT !.videoFile = file] ELSE lipSync
    /\ lsEvent' = NoEvent
    /\ UNCHANGED <<runs, downloads>>

handleAudioUpload(file) ==
    /\ lipSync' = IF file # Null THEN [lipSync EXCEPT !.audioFile = file] ELSE lipSync
    /\ lsEvent' = NoEvent
    /\ UNCHANGED <<runs, downloads>>

\* The Start button is rendered only while isProcessing is false; the handler
\* returns early without both files.  The closure of this invocation keeps the
\* isProcessing of the render it was created in.
handleStartLipSync(r) ==
    /\ ~lipSync.isProcessing
    /\ lipSync.videoFile # Null /\ lipSync.audioFile # Null
    /\ runs[r].pc = "unused"
    /\ \A q \in 1..(r - 1) : runs[q].pc # "unused"
    /\ lipSync' = [lipSync EXCEPT !.isProcessing = TRUE, !.progress = 0, !.error = Null,
                                  !.outputVideoUrl = Null,
                                  !.statusMessage = "Uploading files..."]
    /\ runs' = [runs EXCEPT ![r] = [@ EXCEPT !.pc = "generating",
                                             !.closureIsProcessing = lipSync.isProcessing]]
    /\ lsEvent' = NoEvent
    /\ UNCHANGED downloads

\* await lipSyncApi.generate(...) settles: either the polling interval and the
\* timeout are installed, or the outer catch runs.
GenerateSettles(r, status, body) ==
    /\ runs[r].pc = "generating"
    /\ LET res == generate(status, body) IN
       IF res.threw
       THEN /\ lipSync' = [lipSync EXCEPT !.isProcessing = FALSE,
                               !.error = OrElse(res.message, "Failed to start lip sync processing"),
                               !.statusMessage = ""]
            /\ runs' = [runs EXCEPT ![r] = [@ EXCEPT !.pc = "ended"]]
       ELSE /\ lipSync' = [lipSync EXCEPT !.jobId = r, !.progress = 10,
                                          !.statusMessage = "Processing video..."]
            /\ runs' = [runs EXCEPT ![r] = [@ EXCEPT !.pc = "polling", !.jobId = r,
                                  !.interval = "active", !.timeout = "pending", !.elapsed = 0]]
    /\ lsEvent' = LsEvent("generate", ok(status), r, "none")
    /\ UNCHANGED downloads

\* One firing of the setInterval callback: a status query is issued.
IntervalTick(r) ==
    /\ runs[r].interval = "active"
    /\ runs[r].timeout = "pending" => runs[r].elapsed < TimeoutTicks
    /\ runs[r].inflight < MaxInflight
    /\ runs' = [runs EXCEPT ![r] = [@ EXCEPT !.inflight = @ + 1,
                     !.elapsed = IF runs[r].timeout = "pending" THEN @ + 1 ELSE @]]
    /\ lsEvent' = LsEvent("tick", TRUE, runs[r].jobId, "none")
    /\ UNCHANGED <<lipSync, downloads>>

\* clearInterval forgotten in the 'failed' branch
clearsInterval_OnlyCompleted(status) == status = "completed"

\* The branches of the interval callback that call clearInterval(statusInterval)
clearsInterval(status) == status \in {"completed", "failed"}

\* await lipSyncApi.getStatus(newJobId) settles inside the interval callback.
StatusSettles(r, status, body) ==
    /\ runs[r].inflight > 0
    /\ LET res == getStatus(status, body)
           job == runs[r].jobId
           answered == [runs EXCEPT ![r] = [@ EXCEPT !.inflight = @ - 1]]
           cleared == [runs EXCEPT ![r] = [@ EXCEPT !.inflight = @ - 1, !.interval = "cleared",
                                                   !.elapsed = 0, !.reported = TRUE]]
       IN
       IF res.threw
       THEN /\ UNCHANGED lipSync
            /\ runs' = answered
       ELSE IF res.value.status = "completed"
       THEN /\ lipSync' = [lipSync EXCEPT !.progress = 100, !.isProcessing = FALSE,
                                          !.statusMessage = "Lip sync completed!",
                                          !.outputVideoUrl = getDownloadUrl(job)]
            /\ runs' = IF clearsInterval("completed") THEN cleared ELSE answered
       ELSE IF res.value.status = "failed"
       THEN /\ lipSync' = [lipSync EXCEPT !.isProcessing = FALSE,
                                          !.error = OrElse(res.value.error, "Processing failed"),
                                          !.statusMessage = ""]
            /\ runs' = IF clearsInterval("failed") THEN cleared ELSE answered
       ELSE IF res.value.status = "processing"
       THEN /\ lipSync' = [lipSync EXCEPT !.progress = res.value.progress,
                                          !.statusMessage = OrElse(res.value.stage, "Processing...")]
            /\ runs' = answered
       ELSE /\ UNCHANGED lipSync
            /\ runs' = answered
    /\ lsEvent' = LsEvent("status", ok(status), runs[r].jobId,
                        IF ok(status) THEN body.status ELSE "none")
    /\ UNCHANGED downloads

\* The setTimeout callback, due TIMEOUT_MS after the interval was installed.
\* The time is counted in interval periods (elapsed) while the interval is
\* active; once it is cleared nothing of this run observes the time any more,
\* so the count is dropped and the callback may run at any later step.  The callback reads the
\* isProcessing captured by the closure of handleStartLipSync.
TimeoutFires(r) ==
    /\ runs[r].timeout = "pending"
    /\ runs[r].interval = "active" => runs[r].elapsed = TimeoutTicks
    /\ IF runs[r].closureIsProcessing
       THEN /\ lipSync' = [lipSync EXCEPT !.isProcessing = FALSE,
                                  !.error = "Processing timeout. Please try again."]
            /\ runs' = [runs EXCEPT ![r] = [@ EXCEPT !.timeout = "fired", !.interval = "cleared",
                                                     !.elapsed = 0]]
       ELSE /\ UNCHANGED lipSync
            /\ runs' = [runs EXCEPT ![r] = [@ EXCEPT !.timeout = "fired"]]
    /\ lsEvent' = LsEvent("timeout", TRUE, runs[r].jobId, "none")
    /\ UNCHANGED downloads

\* The Download button is rendered with the result (outputVideoUrl && !isProcessing).
handleDownload ==
    /\ lipSync.outputVideoUrl # Null /\ ~lipSync.isProcessing
    /\ lipSync.jobId # NoJob
    /\ lipSync.jobId \notin downloads
    /\ downloads' = downloads \cup {lipSync.jobId}
    /\ lsEvent' = NoEvent
    /\ UNCHANGED <<lipSync, runs>>

DownloadSettles(job, status) ==
    /\ job \in downloads
    /\ downloads' = downloads \ {job}
    /\ LET res == download(status, Null) IN
       lipSync' = IF res.threw THEN [lipSync EXCEPT !.error = "Failed to download video"]
                  ELSE lipSync
    /\ lsEvent' = LsEvent("download", ok(status), job, "none")
    /\ UNCHANGED runs

\* The "New Lip Sync" button next to Download.
NewLipSync ==
    /\ lipSync.outputVideoUrl # Null /\ ~lipSync.isProcessing
    /\ lipSync' = [lipSync EXCEPT !.videoFile = Null, !.audioFile = Null,
                                  !.outputVideoUrl = Null, !.progress = 0,
                                  !.jobId = NoJob, !.error = Null]
    /\ lsEvent' = NoEvent
    /\ UNCHANGED <<runs, downloads>>

LipSyncNext ==
    \/ \E f \in Files \cup {Null} : handleVideoUpload(f)
    \/ \E f \in Files \cup {Null} : handleAudioUpload(f)
    \/ \E r \in 1..MaxRuns : handleStartLipSync(r)
    \/ \E r \in 1..MaxRuns, st \in HttpStatuses, b \in ErrorBodies : GenerateSettles(r, st, b)
    \/ \E r \in 1..MaxRuns : IntervalTick(r)
    \/ \E r \in 1..MaxRuns, st \in HttpStatuses, b \in Bodies : StatusSettles(r, st, b)
    \/ \E r \in 1..MaxRuns : TimeoutFires(r)
    \/ handleDownload
    \/ \E j \in 1..MaxRuns, st \in HttpStatuses : DownloadSettles(j, st)
    \/ NewLipSync

\* --------------------------------------------------------- speech clients
\* String.prototype.trim on the texts the model uses
Trim(t) == CASE t = "  " -> ""
             [] t = " namaste " -> "namaste"
             [] OTHER -> t

Transcript(text, language) == [text |-> text, language |-> language]
Transcripts == {Transcript(Null, Null), Transcript("  ", "hi"),
                Transcript(" namaste ", "hi"), Transcript("hello", "en")}

Translation(translated_text, text) == [translated_text |-> translated_text, text |-> text]
Translations == {Translation("hello", Null), Translation(Null, Null)}

\* whisperService.transcribeAudio
transcribeAudio(status, body) ==
    IF status = 0 THEN Threw("Failed to fetch")
    ELSE IF ~ok(status) THEN Threw("Transcription failed: status")
    ELSE Returned(body)

\* translationService.translateText: translatedText is data.translated_text || data.text
translateText(status, body) ==
    IF status = 0 THEN Threw("Failed to fetch")
    ELSE IF ~ok(status) THEN Threw("Translation failed: status")
    ELSE Returned([translatedText |-> OrElse(body.translated_text, body.text)])

\* --------------------------------- LiveTranslator and its two hooks
NoBlob == 0
SourceLangs == {"auto", "hi"}
TargetLangs == {"en"}
RecordingModes == {"manual", "continuous"}

FreeCall == [pc |-> "free", blob |-> NoBlob, sourceLang |-> Null, targetLang |-> Null,
             restart |-> FALSE, originalText |-> Null, detectedLang |-> Null]

EmptyHookState == [isProcessing |-> FALSE, segments |-> <<>>, currentOriginal |-> "",
                   currentTranslated |-> "", error |-> Null, detectedLanguage |-> Null]

LtEvent(kind, chunk, blob) == [kind |-> kind, chunk |-> chunk, blob |-> blob]

LiveInit ==
    /\ live = [isTranslating |-> FALSE, recordingMode |-> "manual", sourceLang |-> "auto",
               targetLang |-> "en", interval |-> FALSE, pendingStarts |-> 0]
    /\ recorder = [isRecording |-> FALSE, audioBlob |-> NoBlob, error |-> Null, ref |-> 0]
    /\ media = [k \in 1..MaxRecorders |-> "unused"]
    /\ hook = [state |-> EmptyHookState, processingRef |-> FALSE]
    /\ calls = [c \in 1..MaxCalls |-> FreeCall]
    /\ submitted = {}
    /\ ltEvent = LtEvent("none", "none", NoBlob)

\* useAudioRecorder.clearRecording: setState to the initial state
clearRecording(rec) ==
    [rec EXCEPT !.isRecording = FALSE, !.audioBlob = NoBlob, !.error = Null]

\* useLiveTranscription.clearTranscriptions: the state is reset, the ref is not
clearTranscriptions(hk) == [hk EXCEPT !.state = EmptyHookState]

\* MediaRecorder.stop() through useAudioRecorder.stopRecording, whose closure
\* holds the isRecording of the render that created it
stopRecording(m, rec, closureIsRecording) ==
    IF rec.ref # 0 /\ closureIsRecording /\ m[rec.ref] = "recording"
    THEN [m EXCEPT ![rec.ref] = "stopping"]
    ELSE m

\* stop() on a recorder that is already inactive raises InvalidStateError in
\* some browsers and is ignored in others
stopMayThrow(m, rec, closureIsRecording) ==
    rec.ref # 0 /\ closureIsRecording /\ m[rec.ref] # "recording"

\* processAudioChunk without its guard
processingGuard_Off(hk) == FALSE

\* processAudioChunk: "Prevent concurrent processing"
processingGuard(hk) == hk.processingRef

\* The two effects of LiveTranslator, run after a step has committed from
\* (rec0, lv0) to (rec, hk, lv):
\*  - the audioBlob effect calls processAudioChunk when audioBlob && isTranslating;
\*    a call stopped by the guard resolves at once, so its .then (clearRecording,
\*    restart in continuous mode) runs in the same step;
\*  - the continuous-mode effect installs or cleans up the 3 s interval when
\*    isRecording or recordingMode changed.
Effects(rec0, lv0, rec, hk, lv) ==
    LET depsChanged == \/ rec.audioBlob # rec0.audioBlob
                       \/ lv.isTranslating # lv0.isTranslating
                       \/ lv.sourceLang # lv0.sourceLang
                       \/ lv.targetLang # lv0.targetLang
                       \/ lv.recordingMode # lv0.recordingMode
        fire == depsChanged /\ rec.audioBlob # NoBlob /\ lv.isTranslating
        rejected == fire /\ processingGuard(hk)
        accepted == fire /\ ~processingGuard(hk)
        restart == lv.recordingMode = "continuous"
        free == {c \in 1..MaxCalls : calls[c].pc = "free"}
        slot == CHOOSE c \in free : \A d \in free : c <= d
        rec2 == IF rejected THEN clearRecording(rec) ELSE rec
        hk2 == IF accepted
               THEN [hk EXCEPT !.processingRef = TRUE, !.state.isProcessing = TRUE,
                               !.state.error = Null]
               ELSE hk
        cs2 == IF accepted
               THEN [calls EXCEPT ![slot] = [FreeCall EXCEPT !.pc = "transcribing",
                         !.blob = rec.audioBlob, !.sourceLang = lv.sourceLang,
                         !.targetLang = lv.targetLang, !.restart = restart]]
               ELSE calls
        pend == IF rejected /\ restart THEN lv.pendingStarts + 1 ELSE lv.pendingStarts
        intv == IF rec2.isRecording # rec0.isRecording \/ lv.recordingMode # lv0.recordingMode
                THEN rec2.isRecording /\ lv.recordingMode = "continuous"
                ELSE lv.interval
    IN [enabled |-> (accepted => free # {}) /\ pend <= MaxPending,
        recorder |-> rec2, hook |-> hk2, calls |-> cs2,
        live |-> [lv EXCEPT !.pendingStarts = pend, !.interval = intv],
        submitted |-> IF fire THEN submitted \cup {rec.audioBlob} ELSE submitted,
        chunk |-> IF rejected THEN "rejected" ELSE IF accepted THEN "accepted" ELSE "none",
        blob |-> IF fire THEN rec.audioBlob ELSE NoBlob]

Commit(e, kind) ==
    /\ e.enabled
    /\ recorder' = e.recorder
    /\ hook' = e.hook
    /\ calls' = e.calls
    /\ live' = e.live
    /\ submitted' = e.submitted
    /\ ltEvent' = LtEvent(kind, e.chunk, e.blob)

\* Start / Stop button
handleToggleTranslation(throws) ==
    IF live.isTranslating
    THEN LET mayThrow == recorder.isRecording /\ stopMayThrow(media, recorder, recorder.isRecording)
             lv == [live EXCEPT !.isTranslating = FALSE,
                                !.interval = IF mayThrow /\ throws THEN @ ELSE FALSE]
         IN /\ throws => mayThrow
            /\ media' = IF recorder.isRecording
                        THEN stopRecording(media, recorder, recorder.isRecording)
                        ELSE media
            /\ Commit(Effects(recorder, live, recorder, hook, lv), "stop")
    ELSE LET lv == [live EXCEPT !.isTranslating = TRUE, !.pendingStarts = @ + 1]
         IN /\ ~throws
            /\ live.pendingStarts < MaxPending
            /\ UNCHANGED media
            /\ Commit(Effects(recorder, live, recorder, clearTranscriptions(hook), lv), "start")

\* Clear button (disabled without segments and without a recording)
handleClear(throws) ==
    /\ hook.state.segments # <<>> \/ recorder.isRecording
    /\ LET mayThrow == recorder.isRecording /\ stopMayThrow(media, recorder, recorder.isRecording)
           lv == [live EXCEPT !.isTranslating = FALSE, !.interval = FALSE]
       IN /\ throws => mayThrow
          /\ media' = IF recorder.isRecording
                      THEN stopRecording(media, recorder, recorder.isRecording)
                      ELSE media
          /\ IF throws
             THEN Commit(Effects(recorder, live, recorder, hook, live), "clear")
             ELSE Commit(Effects(recorder, live, clearRecording(recorder),
                                 clearTranscriptions(hook), lv), "clear")

\* The selects and the radio buttons are disabled while translating.
setSourceLang(lang) ==
    /\ ~live.isTranslating
    /\ UNCHANGED media
    /\ Commit(Effects(recorder, live, recorder, hook, [live EXCEPT !.sourceLang = lang]), "config")

setTargetLang(lang) ==
    /\ ~live.isTranslating
    /\ UNCHANGED media
    /\ Commit(Effects(recorder, live, recorder, hook, [live EXCEPT !.targetLang = lang]), "config")

setRecordingMode(mode) ==
    /\ ~live.isTranslating
    /\ UNCHANGED media
    /\ Commit(Effects(recorder, live, recorder, hook, [live EXCEPT !.recordingMode = mode]), "config")

\* A startRecording call (from Start, or from a 100 ms restart timer) gets the
\* answer of getUserMedia: a new MediaRecorder starts, or the catch runs.
startRecording(granted) ==
    /\ live.pendingStarts > 0
    /\ LET lv == [live EXCEPT !.pendingStarts = @ - 1]
           unused == {k \in 1..MaxRecorders : media[k] = "unused"}
           k == CHOOSE u \in unused : \A v \in unused : u <= v
       IN IF granted
          THEN /\ unused # {}
               /\ media' = [media EXCEPT ![k] = "recording"]
               /\ Commit(Effects(recorder, live,
                                 [recorder EXCEPT !.isRecording = TRUE, !.error = Null, !.ref = k],
                                 hook, lv), "recordingStarted")
          ELSE /\ UNCHANGED media
               /\ Commit(Effects(recorder, live,
                                 [recorder EXCEPT !.isRecording = FALSE, !.error = "Permission denied"],
                                 hook, lv), "recordingRefused")

\* mediaRecorder.onstop: the blob of recorder k is stored
onstop(k) ==
    /\ media[k] = "stopping"
    /\ media' = [media EXCEPT ![k] = "inactive"]
    /\ Commit([Effects(recorder, live,
                       [recorder EXCEPT !.audioBlob = k, !.isRecording = FALSE],
                       hook, live) EXCEPT !.blob = k], "onstop")

\* The 3 s interval of continuous mode: stopRecording(), then a 100 ms timer
\* for startRecording().  The callback was created while isRecording was true.
ContinuousTick(throws) ==
    /\ live.interval
    /\ throws => stopMayThrow(media, recorder, TRUE)
    /\ media' = stopRecording(media, recorder, TRUE)
    /\ LET lv == IF throws THEN live ELSE [live EXCEPT !.pendingStarts = @ + 1]
       IN Commit(Effects(recorder, live, recorder, hook, lv), "tick")

\* processAudioChunk leaves through finally; the promise resolves and the
\* .then of the audioBlob effect runs: clearRecording, restart in continuous mode.
Finish(c, hkState, kind) ==
    LET hk == [state |-> hkState, processingRef |-> FALSE]
        lv == [live EXCEPT !.pendingStarts = IF calls[c].restart THEN @ + 1 ELSE @]
        e == Effects(recorder, live, clearRecording(recorder), hk, lv)
    IN /\ UNCHANGED media
       /\ Commit([e EXCEPT !.calls = [calls EXCEPT ![c] = FreeCall]], kind)

Segment(call, originalText, translatedText, detectedLang) ==
    [blob |-> call.blob, originalText |-> originalText, translatedText |-> translatedText,
     sourceLang |-> detectedLang, targetLang |-> call.targetLang]

AddSegment(st, seg) ==
    [st EXCEPT !.segments = Append(@, seg), !.currentOriginal = seg.originalText,
               !.currentTranslated = seg.translatedText, !.isProcessing = FALSE,
               !.detectedLanguage = seg.sourceLang]

\* await transcribeAudio(...) settles in processAudioChunk
TranscribeSettles(c, status, body) ==
    /\ calls[c].pc = "transcribing"
    /\ LET res == transcribeAudio(status, body)
           call == calls[c]
           failed(msg) == [hook.state EXCEPT !.error = msg, !.isProcessing = FALSE]
       IN
       IF res.threw THEN Finish(c, failed(res.message), "chunkFailed")
       ELSE IF Falsy(res.value.text) THEN Finish(c, failed("Transcription failed"), "chunkFailed")
       ELSE LET originalText == Trim(res.value.text)
                detectedLang == OrElse(res.value.language, call.sourceLang)
                st1 == IF call.sourceLang = "auto"
                       THEN [hook.state EXCEPT !.detectedLanguage = detectedLang]
                       ELSE hook.state
            IN IF originalText = ""
               THEN Finish(c, [st1 EXCEPT !.isProcessing = FALSE], "chunkEmpty")
               ELSE IF detectedLang # call.targetLang
               THEN /\ calls' = [calls EXCEPT ![c] = [@ EXCEPT !.pc = "translating",
                                     !.originalText = originalText, !.detectedLang = detectedLang]]
                    /\ hook' = [hook EXCEPT !.state = st1]
                    /\ ltEvent' = LtEvent("transcribed", "none", NoBlob)
                    /\ UNCHANGED <<live, recorder, media, submitted>>
               ELSE Finish(c, AddSegment(st1, Segment(call, originalText, originalText, detectedLang)),
                           "chunkDone")

\* await translateText(...) settles in processAudioChunk
TranslateSettles(c, status, body) ==
    /\ calls[c].pc = "translating"
    /\ LET res == translateText(status, body)
           call == calls[c]
       IN
       IF res.threw
       THEN Finish(c, [hook.state EXCEPT !.error = res.message, !.isProcessing = FALSE], "chunkFailed")
       ELSE Finish(c, AddSegment(hook.state,
                        Segment(call, call.originalText,
                                OrElse(res.value.translatedText, call.originalText),
                                call.detectedLang)), "chunkDone")

LiveNext ==
    \/ \E throws \in BOOLEAN : handleToggleTranslation(throws)
    \/ \E throws \in BOOLEAN : handleClear(throws)
    \/ \E lang \in SourceLangs : setSourceLang(lang)
    \/ \E lang \in TargetLangs : setTargetLang(lang)
    \/ \E mode \in RecordingModes : setRecordingMode(mode)
    \/ \E granted \in BOOLEAN : startRecording(granted)
    \/ \E k \in 1..MaxRecorders : onstop(k)
    \/ \E throws \in BOOLEAN : ContinuousTick(throws)
    \/ \E c \in 1..MaxCalls, st \in HttpStatuses, b \in Transcripts : TranscribeSettles(c, st, b)
    \/ \E c \in 1..MaxCalls, st \in HttpStatuses, b \in Translations : TranslateSettles(c, st, b)

\* ----------------------------------------------------------- TranslatePage
TpFiles == {"clip.mp4"}
TpLangs == {"en", "es"}

TranslatePageInit ==
    /\ tp = [step |-> "upload", file |-> Null, sourceLang |-> "en", targetLang |-> "es",
             progress |-> 0]
    /\ tpIntervals = <<>>

\* FileUpload is rendered in the upload step and hands over a File
handleFileSelect(selectedFile) ==
    /\ tp.step = "upload"
    /\ tp' = [tp EXCEPT !.file = selectedFile, !.step = "configure"]
    /\ UNCHANGED tpIntervals

\* The language selectors of the configure step
tpSetSourceLang(lang) ==
    /\ tp.step = "configure"
    /\ tp' = [tp EXCEPT !.sourceLang = lang]
    /\ UNCHANGED tpIntervals

tpSetTargetLang(lang) ==
    /\ tp.step = "configure"
    /\ tp' = [tp EXCEPT !.targetLang = lang]
    /\ UNCHANGED tpIntervals

\* "Translate Now" (configure step): let currentProgress = 0; setInterval(..., 60)
tpStartTranslation ==
    /\ tp.step = "configure"
    /\ tp' = [tp EXCEPT !.step = "processing"]
    /\ tpIntervals' = Append(tpIntervals, 0)

\* the comparison written as > instead of >=
intervalDone_Late(currentProgress) == currentProgress > 100

\* if (currentProgress >= 100) { clearInterval(interval); setStep('preview') }
intervalDone(currentProgress) == currentProgress >= 100

RemoveAt(seq, i) == SubSeq(seq, 1, i - 1) \o SubSeq(seq, i + 1, Len(seq))

\* One firing of the interval callback
tpIntervalTick(i) ==
    /\ i \in 1..Len(tpIntervals)
    /\ LET currentProgress == tpIntervals[i] + 2 IN
       IF intervalDone(currentProgress)
       THEN /\ tp' = [tp EXCEPT !.progress = currentProgress, !.step = "preview"]
            /\ tpIntervals' = RemoveAt(tpIntervals, i)
       ELSE /\ tp' = [tp EXCEPT !.progress = currentProgress]
            /\ tpIntervals' = [tpIntervals EXCEPT ![i] = currentProgress]

\* reset that forgets setStep('upload')
tpReset_KeepsStep ==
    /\ tp.step \in {"configure", "preview"}
    /\ tp' = [tp EXCEPT !.file = Null, !.progress = 0]
    /\ UNCHANGED tpIntervals

\* "Change" (configure step) and "Translate Another" (preview step)
tpReset ==
    /\ tp.step \in {"configure", "preview"}
    /\ tp' = [tp EXCEPT !.file = Null, !.step = "upload", !.progress = 0]
    /\ UNCHANGED tpIntervals

TranslatePageNext ==
    \/ \E f \in TpFiles : handleFileSelect(f)
    \/ \E lang \in TpLangs : tpSetSourceLang(lang)
    \/ \E lang \in TpLangs : tpSetTargetLang(lang)
    \/ tpStartTranslation
    \/ \E i \in 1..Len(tpIntervals) : tpIntervalTick(i)
    \/ tpReset

\* -------------------------------------------------------------- Translator
MaxAudioSize == 25 * 1024 * 1024
ValidFormats == {"audio/mpeg", "audio/wav", "audio/ogg", "audio/mp4", "audio/flac"}

AudioFile(type, size) == [type |-> type, size |-> size]
NoFile == AudioFile(Null, 0)
UploadFiles == {AudioFile("audio/mpeg", MaxAudioSize),
                AudioFile("audio/flac", MaxAudioSize + 1), AudioFile("audio/webm", 1024),
                AudioFile("audio/webm", MaxAudioSize + 1)}
RecordedFile == AudioFile("audio/wav", 2048)

\* validateAudioFile with the size check ahead of the format check
validateAudioFile_SizeFirst(file) ==
    IF file.size > MaxAudioSize
    THEN [valid |-> FALSE, error |-> "File too large"]
    ELSE IF file.type \notin ValidFormats
    THEN [valid |-> FALSE, error |-> "Unsupported format"]
    ELSE [valid |-> TRUE, error |-> Null]
\* whisperService.validateAudioFile
validateAudioFile(file) ==
    IF file.type \notin ValidFormats
    THEN [valid |-> FALSE, error |-> "Unsupported format"]
    ELSE IF file.size > MaxAudioSize
    THEN [valid |-> FALSE, error |-> "File too large"]
    ELSE [valid |-> TRUE, error |-> Null]

InputModes == {"record", "upload", "text"}
ManualTexts == {"", "  ", "hello"}
TrLangs == {"en", "hi"}

EmptyTranslationState ==
    [originalText |-> "", translatedText |-> "", sourceLang |-> "en", targetLang |-> "hi",
     error |-> Null]

IdleTrRun == [pc |-> "unused", inputMode |-> "record", finalText |-> Null,
              transcribes |-> 0, translates |-> 0, transcribeOk |-> FALSE,
              translated |-> Null]

TranslatorInit ==
    /\ tr = [step |-> "input", inputMode |-> "record", audioFile |-> NoFile, manualText |-> "",
             sourceLang |-> "en", targetLang |-> "hi", progress |-> 0, progressStatus |-> "",
             translationState |-> EmptyTranslationState]
    /\ trRuns = [r \in 1..MaxTrRuns |-> IdleTrRun]

\* The input panel is rendered in the 'input' step only.
trSetInputMode(mode) ==
    /\ tr.step = "input"
    /\ tr' = [tr EXCEPT !.inputMode = mode]
    /\ UNCHANGED trRuns

trSetSourceLang(lang) ==
    /\ tr.step = "input"
    /\ tr' = [tr EXCEPT !.sourceLang = lang]
    /\ UNCHANGED trRuns

trSetTargetLang(lang) ==
    /\ tr.step = "input"
    /\ tr' = [tr EXCEPT !.targetLang = lang]
    /\ UNCHANGED trRuns

swapLanguages ==
    /\ tr.step = "input"
    /\ tr' = [tr EXCEPT !.sourceLang = tr.targetLang, !.targetLang = tr.sourceLang]
    /\ UNCHANGED trRuns

handleAudioRecorded ==
    /\ tr.step = "input" /\ tr.inputMode = "record"
    /\ tr' = [tr EXCEPT !.audioFile = RecordedFile]
    /\ UNCHANGED trRuns

\* Translator.handleFileUpload: the audioFile cell after the change event
\* (alert and return when the validation fails, setAudioFile(file) otherwise)
audioFileAfterUpload(audioFile, file) ==
    IF ~validateAudioFile(file).valid THEN audioFile ELSE file

handleFileUpload(file) ==
    /\ tr.step = "input" /\ tr.inputMode = "upload"
    /\ tr' = [tr EXCEPT !.audioFile = audioFileAfterUpload(tr.audioFile, file)]
    /\ UNCHANGED trRuns

\* "Clear selection" under the uploaded file
trClearSelection ==
    /\ tr.step = "input" /\ tr.inputMode = "upload" /\ tr.audioFile # NoFile
    /\ tr' = [tr EXCEPT !.audioFile = NoFile]
    /\ UNCHANGED trRuns

setManualText(text) ==
    /\ tr.step = "input" /\ tr.inputMode = "text"
    /\ tr' = [tr EXCEPT !.manualText = text]
    /\ UNCHANGED trRuns

\* the catch block of startTranslation
trCatch(page, message) ==
    [page EXCEPT !.translationState.error = message, !.step = "input"]

\* transcription attempted in every input mode
needsTranscription_Always(inputMode) == TRUE

\* if (inputMode === 'record' || inputMode === 'upload')
needsTranscription(inputMode) == inputMode \in {"record", "upload"}

\* the text check without the trim
noTextToTranslate_EmptyOnly(finalText) == Falsy(finalText)

\* if (!finalText || finalText.trim().length === 0) throw
noTextToTranslate(finalText) == Falsy(finalText) \/ Trim(finalText) = ""

\* "Start Translation": disabled without the input of the selected mode.
\* Runs up to the first await, or to the catch.
startTranslation(r) ==
    /\ tr.step = "input"
    /\ ~((tr.inputMode # "text" /\ tr.audioFile = NoFile) \/ (tr.inputMode = "text" /\ tr.manualText = ""))
    /\ trRuns[r].pc = "unused"
    /\ \A q \in 1..(r - 1) : trRuns[q].pc # "unused"
    /\ LET begun == [tr EXCEPT !.step = "processing", !.progress = 0,
                               !.progressStatus = "Initializing..."]
           run == [IdleTrRun EXCEPT !.inputMode = tr.inputMode]
       IN
       IF needsTranscription(tr.inputMode)
       THEN IF tr.audioFile = NoFile
            THEN /\ tr' = trCatch(begun, "No audio file selected")
                 /\ trRuns' = [trRuns EXCEPT ![r] = [run EXCEPT !.pc = "failed"]]
            ELSE /\ tr' = [begun EXCEPT !.progress = 20,
                                        !.progressStatus = "Transcribing audio with Whisper..."]
                 /\ trRuns' = [trRuns EXCEPT ![r] = [run EXCEPT !.pc = "transcribing",
                                                                !.transcribes = @ + 1]]
       ELSE LET typed == [begun EXCEPT !.translationState.originalText = tr.manualText,
                                       !.progress = 40]
            IN IF noTextToTranslate(tr.manualText)
               THEN /\ tr' = trCatch(typed, "No text to translate")
                    /\ trRuns' = [trRuns EXCEPT ![r] = [run EXCEPT !.pc = "failed",
                                                                   !.finalText = tr.manualText]]
               ELSE /\ tr' = [typed EXCEPT !.progress = 60,
                                           !.progressStatus = "Translating with IndicTrans2..."]
                    /\ trRuns' = [trRuns EXCEPT ![r] = [run EXCEPT !.pc = "translating",
                                        !.finalText = tr.manualText, !.translates = @ + 1]]

\* await transcribeAudio(audioFile, sourceLang) settles
trTranscribeSettles(r, status, body) ==
    /\ trRuns[r].pc = "transcribing"
    /\ LET res == transcribeAudio(status, body)
           fail(page, message) ==
               /\ tr' = trCatch(page, message)
               /\ trRuns' = [trRuns EXCEPT ![r] = [@ EXCEPT !.pc = "failed"]]
       IN
       IF res.threw
       THEN fail(tr, "Speech recognition failed. Please ensure Whisper backend is running and audio is clear.")
       ELSE IF res.value.text = Null
       THEN \* extractTranscriptionMetrics reads text.split of undefined
            fail(tr, "TypeError")
       ELSE LET finalText == res.value.text
                heard == [tr EXCEPT !.translationState.originalText = finalText, !.progress = 40]
            IN IF noTextToTranslate(finalText)
               THEN /\ tr' = trCatch(heard, "No text to translate")
                    /\ trRuns' = [trRuns EXCEPT ![r] = [@ EXCEPT !.pc = "failed",
                                        !.finalText = finalText, !.transcribeOk = TRUE]]
               ELSE /\ tr' = [heard EXCEPT !.progress = 60,
                                           !.progressStatus = "Translating with IndicTrans2..."]
                    /\ trRuns' = [trRuns EXCEPT ![r] = [@ EXCEPT !.pc = "translating",
                                        !.finalText = finalText, !.transcribeOk = TRUE,
                                        !.translates = @ + 1]]

\* await translateText({text: finalText, sourceLang, targetLang}) settles; no
\* control of the input panel is rendered while a run is in progress, so the
\* sourceLang and targetLang of the closure are those of the state
trTranslateSettles(r, status, body) ==
    /\ trRuns[r].pc = "translating"
    /\ LET res == translateText(status, body) IN
       IF res.threw
       THEN /\ tr' = trCatch(tr, res.message)
            /\ trRuns' = [trRuns EXCEPT ![r] = [@ EXCEPT !.pc = "failed"]]
       ELSE IF res.value.translatedText = Null
       THEN \* extractTranslationMetrics reads translated.length of undefined
            /\ tr' = trCatch(tr, "TypeError")
            /\ trRuns' = [trRuns EXCEPT ![r] = [@ EXCEPT !.pc = "failed"]]
       ELSE /\ tr' = [tr EXCEPT !.translationState.translatedText = res.value.translatedText,
                                !.translationState.sourceLang = tr.sourceLang,
                                !.translationState.targetLang = tr.targetLang,
                                !.progress = 100, !.progressStatus = "Finalizing results..."]
            /\ trRuns' = [trRuns EXCEPT ![r] = [@ EXCEPT !.pc = "finishing",
                                        !.translated = res.value.translatedText]]

\* setTimeout(() => setStep('results'), 500)
trShowResults(r) ==
    /\ trRuns[r].pc = "finishing"
    /\ tr' = [tr EXCEPT !.step = "results"]
    /\ trRuns' = [trRuns EXCEPT ![r] = [@ EXCEPT !.pc = "done"]]

\* "Reset" (input step) and "New Translation" (results step)
trReset ==
    /\ tr.step \in {"input", "results"}
    /\ tr' = [tr EXCEPT !.step = "input", !.inputMode = "record", !.audioFile = NoFile,
                        !.manualText = "", !.progress = 0, !.progressStatus = "",
                        !.translationState = EmptyTranslationState]
    /\ UNCHANGED trRuns

TranslatorNext ==
    \/ \E mode \in InputModes : trSetInputMode(mode)
    \/ \E lang \in TrLangs : trSetSourceLang(lang)
    \/ \E lang \in TrLangs : trSetTargetLang(lang)
    \/ swapLanguages
    \/ handleAudioRecorded
    \/ \E file \in UploadFiles : handleFileUpload(file)
    \/ trClearSelection
    \/ \E text \in ManualTexts : setManualText(text)
    \/ \E r \in 1..MaxTrRuns : startTranslation(r)
    \/ \E r \in 1..MaxTrRuns, st \in HttpStatuses, b \in Transcripts : trTranscribeSettles(r, st, b)
    \/ \E r \in 1..MaxTrRuns, st \in HttpStatuses, b \in Translations : trTranslateSettles(r, st, b)
    \/ \E r \in 1..MaxTrRuns : trShowResults(r)
    \/ trReset

\* ------------------------------------------- the HTTP client functions
\* api.ts apiCall: throws on !response.ok, else response.json()
apiCall(status, body) ==
    IF status = 0 THEN Threw("Failed to fetch")
    ELSE IF ~ok(status) THEN Threw("API Error: status")
    ELSE Returned(body)

\* lipSyncApi.checkHealth: response.json() whatever the status
checkHealth(status, body) ==
    IF status = 0 THEN Threw("Failed to fetch")
    ELSE Returned(body)

\* whisperService.detectLanguage: data.language
detectLanguage(status, body) ==
    IF status = 0 THEN Threw("Failed to fetch")
    ELSE IF ~ok(status) THEN Threw("Language detection failed")
    ELSE Returned(body.language)

\* The /translate/batch bodies: translations is the list the client reads
\* (absent when hasTranslations is false)
BatchBody(hasTranslations, translations) ==
    [hasTranslations |-> hasTranslations, translations |-> translations]
\* The /translate/batch response of the backend guide: results, total_count,
\* success_count, processing_time, success, and no translations field; an
\* entry of results as the guide's /translate response carries a translation
GuideResult(translated_text) == [translated_text |-> translated_text]
GuideBatchBody(results) ==
    [hasTranslations |-> FALSE, translations |-> <<>>,
     results |-> results, total_count |-> Len(results)]
GuideBatchBodies ==
    {GuideBatchBody(<<>>), GuideBatchBody(<<GuideResult("ek")>>),
     GuideBatchBody(<<GuideResult("ek"), GuideResult("do")>>)}
BatchBodies ==
    {BatchBody(FALSE, <<>>), BatchBody(TRUE, <<"ek">>), BatchBody(TRUE, <<"ek", "do">>)}
        \cup GuideBatchBodies
\* caller's language codes, one of them without an IndicTrans2 mapping
BatchLangs == {<<"en", "hi">>, <<"hi", "en">>, <<"fr", "en">>}
BatchTexts == {<<>>, <<"one">>, <<"one", "two">>}

\* translationService.translateBatch: texts.map((text, idx) => data.translations[idx] || '')
translateBatch(status, body, texts, sourceLang, targetLang) ==
    IF status = 0 THEN Threw("Failed to fetch")
    ELSE IF ~ok(status) THEN Threw("Batch translation failed: status")
    ELSE IF texts # <<>> /\ ~body.hasTranslations THEN Threw("TypeError")
    ELSE Returned([idx \in 1..Len(texts) |->
                     [translatedText |-> IF idx <= Len(body.translations)
                                         THEN OrElse(body.translations[idx], "")
                                         ELSE "",
                      sourceLang |-> sourceLang, targetLang |-> targetLang]])

HealthBodies == {[status |-> "ready", error |-> Null],
                 [status |-> "error", error |-> "models not loaded"]}

HttpCall(fn, status, body, result) ==
    [fn |-> fn, status |-> status, body |-> body, result |-> result]

HttpInit == http = HttpCall("none", 200, Null, Returned(Null))

CallApiCall(status, body) ==
    http' = HttpCall("apiCall", status, body, apiCall(status, body))
CallGenerate(status, body) ==
    http' = HttpCall("generate", status, body, generate(status, body))
CallGetStatus(status, body) ==
    http' = HttpCall("getStatus", status, body, getStatus(status, body))
CallDownload(status, body) ==
    http' = HttpCall("download", status, body, download(status, body))
CallCheckHealth(status, body) ==
    http' = HttpCall("checkHealth", status, body, checkHealth(status, body))
CallTranscribeAudio(status, body) ==
    http' = HttpCall("transcribeAudio", status, body, transcribeAudio(status, body))
CallDetectLanguage(status, body) ==
    http' = HttpCall("detectLanguage", status, body, detectLanguage(status, body))
CallTranslateText(status, body) ==
    http' = HttpCall("translateText", status, body, translateText(status, body))
\* a translateBatch call, with its arguments
BatchCall(texts, sourceLang, targetLang, status, body, result) ==
    [fn |-> "translateBatch", status |-> status, body |-> body, result |-> result,
     texts |-> texts, sourceLang |-> sourceLang, targetLang |-> targetLang]
CallTranslateBatch(status, body, texts, sourceLang, targetLang) ==
    http' = BatchCall(texts, sourceLang, targetLang, status, body,
                      translateBatch(status, body, texts, sourceLang, targetLang))

HttpNext ==
    \/ \E st \in HttpStatuses, b \in HealthBodies : CallApiCall(st, b)
    \/ \E st \in HttpStatuses, b \in Bodies : CallGenerate(st, b)
    \/ \E st \in HttpStatuses, b \in Bodies : CallGetStatus(st, b)
    \/ \E st \in HttpStatuses, b \in {"blob"} : CallDownload(st, b)
    \/ \E st \in HttpStatuses, b \in HealthBodies : CallCheckHealth(st, b)
    \/ \E st \in HttpStatuses, b \in Transcripts : CallTranscribeAudio(st, b)
    \/ \E st \in HttpStatuses, b \in Transcripts : CallDetectLanguage(st, b)
    \/ \E st \in HttpStatuses, b \in Translations : CallTranslateText(st, b)
    \/ \E st \in HttpStatuses, b \in BatchBodies, texts \in BatchTexts, langs \in BatchLangs :
          CallTranslateBatch(st, b, texts, langs[1], langs[2])

\* ------------------------------------------- validation and request building
\* The exported helpers of whisperService.ts and translationService.ts that
\* make no request, applied to inputs drawn from the sets below.
UtilCall(fn, input, output) == [fn |-> fn, input |-> input, output |-> output]

UtilInit == util = UtilCall("none", Null, Null)

FileTypes == ValidFormats \cup {"audio/webm", "audio/x-wav", "video/mp4", ""}
FileSizes == {0, 1024, MaxAudioSize, MaxAudioSize + 1}
AudioFiles == {AudioFile(type, size) : type \in FileTypes, size \in FileSizes}

CallValidateAudioFile(file) ==
    util' = UtilCall("validateAudioFile", file, validateAudioFile(file))

CallHandleFileUpload(audioFile, file) ==
    util' = UtilCall("handleFileUpload", [audioFile |-> audioFile, file |-> file],
                     audioFileAfterUpload(audioFile, file))

\* translationService.INDIC_LANGUAGE_CODES: the keys in the order of the
\* literal (the order of Object.keys) and the code of each key
IndicKeys ==
    <<"en", "hi", "bn", "gu", "kn", "ml", "mr", "or", "pa", "ta", "te", "as", "brx",
      "doi", "gom", "kas_arab", "kas_dev", "mai", "mni_beng", "mni_mtei", "ne", "sa",
      "sat", "snd_arab", "snd_dev", "ur">>
IndicCodes ==
    <<"eng_Latn", "hin_Deva", "ben_Beng", "guj_Gujr", "kan_Knda", "mal_Mlym", "mar_Deva",
      "ory_Orya", "pan_Guru", "tam_Taml", "tel_Telu", "asm_Beng", "brx_Deva", "doi_Deva",
      "gom_Deva", "kas_Arab", "kas_Deva", "mai_Deva", "mni_Beng", "mni_Mtei", "npi_Deva",
      "san_Deva", "sat_Olck", "snd_Arab", "snd_Deva", "urd_Arab">>
OwnKeys == {IndicKeys[i] : i \in 1..Len(IndicKeys)}

\* INDIC_LANGUAGE_CODES is an object literal: a property read that misses the
\* own keys goes on to Object.prototype, whose members are functions
ObjectPrototypeKeys ==
    {"constructor", "toString", "toLocaleString", "valueOf", "hasOwnProperty",
     "isPrototypeOf", "propertyIsEnumerable"}

\* INDIC_LANGUAGE_CODES[key]
INDIC_LANGUAGE_CODES(key) ==
    IF key \in OwnKeys THEN IndicCodes[CHOOSE i \in 1..Len(IndicKeys) : IndicKeys[i] = key]
    ELSE IF key \in ObjectPrototypeKeys THEN "function"
    ELSE Null

TranslationRequest(text, sourceLang, targetLang) ==
    [text |-> text, sourceLang |-> sourceLang, targetLang |-> targetLang]

\* translationService.validateTranslationRequest
validateTranslationRequest(request) ==
    IF Falsy(request.text) \/ Trim(request.text) = ""
    THEN [valid |-> FALSE, error |-> "Text cannot be empty"]
    ELSE IF Falsy(INDIC_LANGUAGE_CODES(request.sourceLang))
    THEN [valid |-> FALSE, error |-> "Unsupported source language"]
    ELSE IF Falsy(INDIC_LANGUAGE_CODES(request.targetLang))
    THEN [valid |-> FALSE, error |-> "Unsupported target language"]
    ELSE IF request.sourceLang = request.targetLang
    THEN [valid |-> FALSE, error |-> "Source and target languages cannot be the same"]
    ELSE [valid |-> TRUE, error |-> Null]

\* translationService.getSupportedLanguagePairs: the two nested loops over
\* Object.keys, in the order they push
getSupportedLanguagePairs ==
    LET n == Len(IndicKeys)
        all == [k \in 1..(n * n) |-> [from |-> IndicKeys[((k - 1) \div n) + 1],
                                      to |-> IndicKeys[((k - 1) % n) + 1]]]
    IN SelectSeq(all, LAMBDA pair : pair.from # pair.to)

RequestTexts == {Null, "", "  ", "hello"}
RequestLangs == {"en", "hi", "kas_arab", "ur", "fr", "", "constructor"}

CallValidateTranslationRequest(request) ==
    util' = UtilCall("validateTranslationRequest", request, validateTranslationRequest(request))

CallGetSupportedLanguagePairs ==
    util' = UtilCall("getSupportedLanguagePairs", Null, getSupportedLanguagePairs)

\* The multipart bodies of whisperService.ts: FormData as the list of its
\* entries in the order of the append calls
FormEntry(name, value) == [name |-> name, value |-> value]

\* transcribeAudio: formData.append('file', audioFile); language when truthy
transcribeAudioFormData(audioFile, language) ==
    <<FormEntry("file", audioFile)>>
        \o (IF ~Falsy(language) THEN <<FormEntry("language", language)>> ELSE <<>>)

\* detectLanguage: formData.append('file', audioFile)
detectLanguageFormData(audioFile) == <<FormEntry("file", audioFile)>>

\* The backend guide's requests for /api/speech/transcribe and
\* /api/speech/detect-language: curl -F "audio=@test.wav" [-F "language=en"]
GUIDE_AUDIO_FIELD == "audio"
GUIDE_LANGUAGE_FIELD == "language"

SpeechFiles == {RecordedFile, AudioFile("audio/mpeg", MaxAudioSize)}
\* the optional language argument: undefined, empty, or a code
SpeechLanguages == {Null, "", "en", "hi"}

CallTranscribeAudioFormData(audioFile, language) ==
    util' = UtilCall("transcribeAudio", [audioFile |-> audioFile, language |-> language],
                     transcribeAudioFormData(audioFile, language))

CallDetectLanguageFormData(audioFile) ==
    util' = UtilCall("detectLanguage", [audioFile |-> audioFile, language |-> Null],
                     detectLanguageFormData(audioFile))

UtilNext ==
    \/ \E audioFile \in SpeechFiles, language \in SpeechLanguages :
          CallTranscribeAudioFormData(audioFile, language)
    \/ \E audioFile \in SpeechFiles : CallDetectLanguageFormData(audioFile)
    \/ \E file \in AudioFiles : CallValidateAudioFile(file)
    \/ \E audioFile \in {NoFile, RecordedFile}, file \in AudioFiles :
          CallHandleFileUpload(audioFile, file)
    \/ \E text \in RequestTexts, sourceLang \in RequestLangs, targetLang \in RequestLangs :
          CallValidateTranslationRequest(TranslationRequest(text, sourceLang, targetLang))
    \/ CallGetSupportedLanguagePairs

\* ------------------------------------------------------------ VoiceClone
\* pages/VoiceClone.tsx
MIN_SAMPLES == 3
RANDOM_RANGE == 15
TRAINING_DONE == 100

CloneNames == {"", "Ann"}
SampleFiles == {"s1.wav", "s2.wav"}
\* what one use of the multiple-file input can deliver
Selections == {<<f>> : f \in SampleFiles} \cup {<<f, g>> : f \in SampleFiles, g \in SampleFiles}
\* Math.random() * 15, by whole steps
RandomSteps == 0..(RANDOM_RANGE - 1)

VoiceCloneInit ==
    /\ vc = [cloneName |-> "", isTraining |-> FALSE, trainingProgress |-> 0, audioFiles |-> <<>>]
    /\ vcIntervals = 0

setCloneName(name) ==
    /\ vc' = [vc EXCEPT !.cloneName = name]
    /\ UNCHANGED vcIntervals

\* setAudioFiles((prev) => [...prev, ...Array.from(files)])
vcHandleAudioUpload(files) ==
    /\ Len(vc.audioFiles) + Len(files) <= MaxSamples
    /\ vc' = [vc EXCEPT !.audioFiles = vc.audioFiles \o files]
    /\ UNCHANGED vcIntervals

\* setAudioFiles((prev) => prev.filter((_, i) => i !== idx))
vcRemoveFile(idx) ==
    /\ idx \in 1..Len(vc.audioFiles)
    /\ vc' = [vc EXCEPT !.audioFiles = RemoveAt(vc.audioFiles, idx)]
    /\ UNCHANGED vcIntervals

\* the Start Training button: disabled={isTraining || !cloneName || audioFiles.length < 3}
startTrainingDisabled_IgnoresTraining ==
    vc.cloneName = "" \/ Len(vc.audioFiles) < MIN_SAMPLES
startTrainingDisabled ==
    vc.isTraining \/ vc.cloneName = "" \/ Len(vc.audioFiles) < MIN_SAMPLES

\* handleStartTraining, reached through the button's onClick
handleStartTraining ==
    /\ ~startTrainingDisabled
    /\ vcIntervals < MaxVcIntervals
    /\ IF vc.cloneName = "" \/ Len(vc.audioFiles) < MIN_SAMPLES
       THEN UNCHANGED <<vc, vcIntervals>>
       ELSE /\ vc' = [vc EXCEPT !.isTraining = TRUE]
            /\ vcIntervals' = vcIntervals + 1

\* one firing of a live interval: the setTrainingProgress updater
vcIntervalTick(step) ==
    /\ vcIntervals > 0
    /\ IF vc.trainingProgress >= TRAINING_DONE
       THEN /\ vcIntervals' = vcIntervals - 1
            /\ vc' = [vc EXCEPT !.isTraining = FALSE, !.trainingProgress = TRAINING_DONE]
       ELSE /\ vc' = [vc EXCEPT !.trainingProgress = vc.trainingProgress + step]
            /\ UNCHANGED vcIntervals

VoiceCloneNext ==
    \/ \E name \in CloneNames : setCloneName(name)
    \/ \E files \in Selections : vcHandleAudioUpload(files)
    \/ \E idx \in 1..MaxSamples : vcRemoveFile(idx)
    \/ handleStartTraining
    \/ \E step \in RandomSteps : vcIntervalTick(step)

\* ------------------------------------------------------- specifications
Init ==
    /\ LipSyncInit /\ LiveInit /\ TranslatePageInit /\ TranslatorInit /\ HttpInit
    /\ VoiceCloneInit /\ UtilInit

NextLipSync == LipSyncNext /\ UNCHANGED <<ltVars, tpVars, trVars, http, vcVars, util>>
SpecLipSync == Init /\ [][NextLipSync]_vars

NextLive == LiveNext /\ UNCHANGED <<lsVars, tpVars, trVars, http, vcVars, util>>
SpecLive == Init /\ [][NextLive]_vars

NextTranslatePage == TranslatePageNext /\ UNCHANGED <<lsVars, ltVars, trVars, http, vcVars, util>>
SpecTranslatePage == Init /\ [][NextTranslatePage]_vars
NextTranslator == TranslatorNext /\ UNCHANGED <<lsVars, ltVars, tpVars, http, vcVars, util>>
SpecTranslator == Init /\ [][NextTranslator]_vars

NextHttp == HttpNext /\ UNCHANGED <<lsVars, ltVars, tpVars, trVars, vcVars, util>>
SpecHttp == Init /\ [][NextHttp]_vars

NextVoiceClone == VoiceCloneNext /\ UNCHANGED <<lsVars, ltVars, tpVars, trVars, http, util>>
SpecVoiceClone == Init /\ [][NextVoiceClone]_vars

NextUtil == UtilNext /\ UNCHANGED <<lsVars, ltVars, tpVars, trVars, http, vcVars>>
SpecUtil == Init /\ [][NextUtil]_vars

\* setInterval keeps firing its callback until the interval is cleared
FairTranslatePage ==
    SpecTranslatePage /\ WF_vars(\E i \in 1..Len(tpIntervals) : tpIntervalTick(i) /\ UNCHANGED <<lsVars, ltVars, trVars, http, vcVars, util>>)

\* ---------------------------------------------------------------- claims
\* C1: when the 5-minute timeout of a job fires and the job has been reported
\* neither completed nor failed, the polling interval is cleared, isProcessing
\* is false and the error is the timeout message.
C1_TimeoutStopsPolling ==
    \A r \in 1..MaxRuns :
        (lsEvent.endpoint = "timeout" /\ lsEvent.job = r /\ ~runs[r].reported)
            => /\ runs[r].interval = "cleared"
               /\ ~lipSync.isProcessing
               /\ lipSync.error = "Processing timeout. Please try again."

\* C2: every tick of the polling interval issues one status query for the job;
\* once a 'completed' or 'failed' response was handled the interval is cleared
\* and no further status query is issued for that job; a status query that
\* throws, or any other status, leaves the interval as it was.
C2_PollingUntilFinalStatus ==
    /\ [](\A r \in 1..MaxRuns : runs[r].reported => runs[r].interval = "cleared")
    /\ [][\A r \in 1..MaxRuns :
            /\ (lsEvent'.endpoint = "tick" /\ lsEvent'.job = r)
                  => (runs[r].interval = "active" /\ runs'[r].inflight = runs[r].inflight + 1)
            /\ runs[r].interval # "active" => runs'[r].inflight <= runs[r].inflight
            /\ (lsEvent'.endpoint = "status" /\ lsEvent'.job = r)
                  => IF lsEvent'.ok /\ lsEvent'.status \in {"completed", "failed"}
                     THEN runs'[r].interval = "cleared"
                     ELSE runs'[r].interval = runs[r].interval]_vars

C2_Witness ==
    \E r \in 1..MaxRuns :
        /\ runs[r].reported /\ runs[r].interval = "cleared"
        /\ lsEvent.endpoint = "status" /\ lsEvent.job = r /\ lsEvent.status = "failed"

\* C3 as stated: every non-2xx response to generate, to a status poll or to a
\* download leaves an error message in the page's error state.
C3_EveryFailureShown ==
    (lsEvent.endpoint \in {"generate", "status", "download"} /\ ~lsEvent.ok)
        => lipSync.error # Null

\* C3 amended: a non-2xx response to generate or to a download stores an error
\* message in the error state; a non-2xx response to a status poll is only
\* logged and leaves the page state and the polling as they were.
C3_FailureShownExceptPoll ==
    [][/\ (lsEvent'.endpoint \in {"generate", "download"} /\ ~lsEvent'.ok)
            => lipSync'.error # Null
       /\ (lsEvent'.endpoint = "status" /\ ~lsEvent'.ok)
            => (lipSync' = lipSync
                /\ \A r \in 1..MaxRuns : runs'[r].interval = runs[r].interval)]_vars

C3_Witness ==
    /\ lsEvent.endpoint \in {"generate", "download"} /\ ~lsEvent.ok
    /\ lipSync.error \in {"backend error", "Failed to generate lip sync", "Failed to download video"}

\* C4: in manual mode the audio of a recording that has stopped is passed to
\* processAudioChunk.
C4_ManualAudioProcessed ==
    (ltEvent.kind = "onstop" /\ live.recordingMode = "manual")
        => ltEvent.blob \in submitted

\* C5: a recording starts only while translating: after Stop no recording is
\* started until the user clicks Start again.
C5_NoRecordingAfterStop ==
    ltEvent.kind = "recordingStarted" => live.isTranslating

\* C6: at most one processAudioChunk invocation is transcribing or translating;
\* processingRef is set exactly while one is; an invocation made meanwhile
\* issues no request and leaves the hook's state alone.
ActiveCalls == {c \in 1..MaxCalls : calls[c].pc # "free"}

C6_GuardedProcessing ==
    /\ [](Cardinality(ActiveCalls) <= 1 /\ (hook.processingRef <=> ActiveCalls # {}))
    /\ [][ltEvent'.chunk = "rejected"
            => /\ calls' = calls
               /\ hook'.processingRef = hook.processingRef
               /\ ltEvent'.kind = "onstop" => hook' = hook]_vars

C6_Witness ==
    /\ ltEvent.chunk = "rejected" /\ ltEvent.kind = "onstop"
    /\ Cardinality(ActiveCalls) = 1

C7_SequentialNoRetry ==
    \A r \in 1..MaxTrRuns :
        /\ trRuns[r].transcribes <= 1 /\ trRuns[r].translates <= 1
        /\ trRuns[r].inputMode = "text" => trRuns[r].transcribes = 0
        /\ (trRuns[r].inputMode # "text" /\ trRuns[r].translates = 1)
              => (trRuns[r].transcribes = 1 /\ trRuns[r].transcribeOk)
        /\ trRuns[r].pc = "transcribing" => trRuns[r].translates = 0

C7_Witness ==
    /\ \E r \in 1..MaxTrRuns : trRuns[r].inputMode = "upload" /\ trRuns[r].pc = "done"
                               /\ trRuns[r].translates = 1
    /\ \E r \in 1..MaxTrRuns : trRuns[r].inputMode = "text" /\ trRuns[r].translates = 1

\* C8: every HTTP client function throws when the response status is not 2xx
\* and returns response data only for a 2xx response.
C8_ThrowsOnNon2xx ==
    http.fn # "none" =>
        /\ ~ok(http.status) => http.result.threw
        /\ ~http.result.threw => ok(http.status)

\* C11: a training run starts (a new interval is armed and isTraining becomes
\* true) only from a state where the clone name is non-empty, at least 3
\* samples are selected and no training run is in progress.
C11_TrainingGuard ==
    [][vcIntervals' > vcIntervals =>
          /\ vc.cloneName # ""
          /\ Len(vc.audioFiles) >= MIN_SAMPLES
          /\ ~vc.isTraining /\ vcIntervals = 0
          /\ vc'.isTraining]_vars

C11_Witness ==
    /\ vc.isTraining /\ vcIntervals = 1
    /\ vc.trainingProgress > 0
    /\ Len(vc.audioFiles) >= MIN_SAMPLES

\* C12: validateAudioFile accepts exactly the files whose type is one of the
\* five listed formats and whose size is at most 25 MB; a rejection carries an
\* error, the unsupported-format error ahead of the too-large one; an upload
\* that fails the validation leaves Translator's audioFile as it was.
C12_AudioFileValidation ==
    LET formats == {"audio/mpeg", "audio/wav", "audio/ogg", "audio/mp4", "audio/flac"}
        limit == 25 * 1024 * 1024
    IN /\ util.fn = "validateAudioFile" =>
            /\ util.output.valid <=> (util.input.type \in formats /\ util.input.size <= limit)
            /\ ~util.output.valid => util.output.error # Null
            /\ util.input.type \notin formats => util.output.error = "Unsupported format"
            /\ (util.input.type \in formats /\ util.input.size > limit)
                  => util.output.error = "File too large"
       /\ util.fn = "handleFileUpload" =>
            IF util.input.file.type \in formats /\ util.input.file.size <= limit
            THEN util.output = util.input.file
            ELSE util.output = util.input.audioFile

C12_Witness ==
    /\ util.fn = "validateAudioFile"
    /\ util.input.type = "audio/webm" /\ util.input.size > 25 * 1024 * 1024
    /\ util.output = [valid |-> FALSE, error |-> "Unsupported format"]

\* C13: validateTranslationRequest accepts exactly the requests whose text is
\* not blank, whose sourceLang and targetLang are keys of INDIC_LANGUAGE_CODES
\* and differ; a rejection carries the error of the first failing check in the
\* order empty text, unsupported source, unsupported target, same languages.
C13_TranslationRequestValidation ==
    util.fn = "validateTranslationRequest" =>
        LET request == util.input
            blank == request.text \in {Null, "", "  "}
            expected ==
                IF blank THEN [valid |-> FALSE, error |-> "Text cannot be empty"]
                ELSE IF request.sourceLang \notin OwnKeys
                THEN [valid |-> FALSE, error |-> "Unsupported source language"]
                ELSE IF request.targetLang \notin OwnKeys
                THEN [valid |-> FALSE, error |-> "Unsupported target language"]
                ELSE IF request.sourceLang = request.targetLang
                THEN [valid |-> FALSE, error |-> "Source and target languages cannot be the same"]
                ELSE [valid |-> TRUE, error |-> Null]
        IN util.output = expected

\* C14: getSupportedLanguagePairs returns each ordered pair of distinct keys of
\* INDIC_LANGUAGE_CODES exactly once, and a pair (s, t) is returned if and only
\* if validateTranslationRequest accepts a non-blank text with sourceLang s and
\* targetLang t.
C14_PairsMatchValidation ==
    util.fn = "getSupportedLanguagePairs" =>
        LET pairs == util.output
            returned == {pairs[i] : i \in 1..Len(pairs)}
        IN /\ returned = {pair \in [from : OwnKeys, to : OwnKeys] : pair.from # pair.to}
           /\ Len(pairs) = Cardinality(returned)
           /\ \A s \in RequestLangs, t \in RequestLangs :
                 [from |-> s, to |-> t] \in returned
                    <=> validateTranslationRequest(TranslationRequest("hello", s, t)).valid

\* C15: the multipart body built by transcribeAudio and by detectLanguage
\* carries the audio file under the field name of the backend guide, 'audio',
\* and a 'language' field exactly when a language is given.
C15_FormFieldsAsDocumented ==
    util.fn \in {"transcribeAudio", "detectLanguage"} =>
        LET form == util.output
            named(name) == {i \in 1..Len(form) : form[i].name = name}
        IN /\ \E i \in named(GUIDE_AUDIO_FIELD) : form[i].value = util.input.audioFile
           /\ named(GUIDE_LANGUAGE_FIELD) # {} <=> util.input.language \notin {Null, ""}
           /\ \A i \in named(GUIDE_LANGUAGE_FIELD) : form[i].value = util.input.language

\* C16: for a 2xx /translate/batch response of the shape the backend guide
\* documents, with one result per text, translateBatch returns one entry per
\* input text in input order, the i-th carrying the backend's translation of
\* texts[i] and the caller's own sourceLang and targetLang.
C16_BatchAsDocumented ==
    (/\ http.fn = "translateBatch" /\ ok(http.status)
     /\ http.body \in GuideBatchBodies
     /\ Len(http.body.results) = Len(http.texts)) =>
        /\ ~http.result.threw
        /\ Len(http.result.value) = Len(http.texts)
        /\ \A i \in 1..Len(http.texts) :
              /\ http.result.value[i].translatedText = http.body.results[i].translated_text
              /\ http.result.value[i].sourceLang = http.sourceLang
              /\ http.result.value[i].targetLang = http.targetLang

\* C17: Translator shows 'results' only for a run whose translateText call
\* returned and whose translatedText is in translationState; a run that fails
\* (transcription, translation, blank text) puts the step back to 'input' with
\* a message in translationState.error, stores no translation and never reaches
\* 'results'; a blank text is never sent to the translate endpoint.
C17_ResultsOnlyAfterTranslation ==
    [][/\ (tr.step # "results" /\ tr'.step = "results") =>
             \E r \in 1..MaxTrRuns :
                 /\ trRuns[r].pc = "finishing" /\ trRuns'[r].pc = "done"
                 /\ trRuns[r].translates = 1 /\ trRuns[r].translated # Null
                 /\ tr'.translationState.translatedText = trRuns[r].translated
       /\ \A r \in 1..MaxTrRuns :
             /\ (trRuns[r].pc # "failed" /\ trRuns'[r].pc = "failed") =>
                   /\ tr'.step = "input"
                   /\ tr'.translationState.error # Null
                   /\ tr'.translationState.translatedText = tr.translationState.translatedText
                   /\ trRuns'[r].translated = Null
             /\ trRuns[r].pc = "failed" => trRuns'[r].pc = "failed"
             /\ trRuns'[r].pc \in {"finishing", "done"} =>
                   trRuns[r].pc \in {"translating", "finishing", "done"}
             /\ trRuns'[r].translates >= 1 =>
                   trRuns'[r].finalText \notin {Null, "", "  "}]_vars

C17_Witness ==
    /\ tr.step = "results"
    /\ \E r \in 1..MaxTrRuns :
          trRuns[r].pc = "done" /\ tr.translationState.translatedText = trRuns[r].translated
    /\ \E q \in 1..MaxTrRuns : trRuns[q].pc = "failed" /\ trRuns[q].finalText = "  "
    /\ tr.translationState.error = "No text to translate"

====
